---- MODULE Spec2Model ----
(***************************************************************************)
(* Memory blocks (MemBlock.py), the allocation graph extractor             *)
(* (AllocationFinder.py) and the MiniZinc model generator                  *)
(* (MinizincGenerator.py) of the 2d-strip-packing repository.              *)
(*                                                                         *)
(* Python objects live on a heap: mbs is the sequence of every MemBlock    *)
(* constructed so far and a block is referred to by its position in it     *)
(* (its object identity).  Lists of blocks are sequences of positions.     *)
(* Indices of parameters and call contexts are 0-based as in the source.   *)
(***************************************************************************)
EXTENDS Integers, Sequences, FiniteSets, TLC

VARIABLES
    mbs,                    \* heap of MemBlock objects
    uuid_count,             \* number of uuid.uuid4() draws made so far
    last,                   \* the last MemBlock operation a caller made
    pc,                     \* position of the driver
    prog,                   \* the IRModule under analysis (self.mod_)
    memblocks,              \* AllocationFinder.memblocks (ordered dict)
    relax_var_to_memblock,  \* AllocationFinder.relax_var_to_memblock
    tir_buffer_to_memblock, \* AllocationFinder.tir_buffer_to_memblock (ordered dict)
    call_tir_contexts,      \* AllocationFinder.call_tir_contexts
    out,                    \* what generate_minizinc_model produced
    solution                \* an assignment the solver returns for the model

vars == <<mbs, uuid_count, last, pc, prog, memblocks, relax_var_to_memblock,
          tir_buffer_to_memblock, call_tir_contexts, out, solution>>

----------------------------------------------------------------------------
(* Bounds of the model *)

MaxBlocks == 3     \* blocks a caller constructs directly
MaxOps == 2        \* add_dependency / remove_dependency calls a caller makes
MaxInitList == 1   \* length of a depends_on / links_to list given to the constructor
MaxInputs == 2     \* parameters of the Relax function
MaxCalls == 2      \* call_tir bindings of the Relax function
MaxListed == 3     \* blocks of a list whose sizeY is computed
MaxTime == 3       \* time horizon of the solver
MaxMade == 2       \* blocks a caller constructs to read their size
MaxNodes == 3      \* blocks of a graph whose dependencies are collected
MaxDeps == 2       \* add_dependency calls per block of such a graph

----------------------------------------------------------------------------
(* Small helpers on sequences *)

Range(s) == {s[k] : k \in 1..Len(s)}

SeqsUpTo(S, n) == UNION {[1..k -> S] : k \in 0..n}

RECURSIVE SumSeq(_)
SumSeq(s) == IF s = <<>> THEN 0 ELSE s[1] + SumSeq(Tail(s))

RECURSIVE ProdSeq(_)
ProdSeq(s) == IF s = <<>> THEN 1 ELSE s[1] * ProdSeq(Tail(s))

MinSeq(s) == CHOOSE m \in Range(s) : \A x \in Range(s) : m <= x

None == <<"None">>

----------------------------------------------------------------------------
(* Integers beyond the range of the model's own: [m, e] stands for m * 2^e, *)
(* with m odd, or m = 0 and e = 0.  Python's int is unbounded; numpy's      *)
(* int64 keeps the low 64 bits, read as a signed number.                    *)

RECURSIVE Norm(_, _)
Norm(m, e) ==
    IF m = 0 THEN [m |-> 0, e |-> 0]
    ELSE IF m % 2 = 0 THEN Norm(m \div 2, e + 1)
    ELSE [m |-> m, e |-> e]

BigOf(x) == Norm(x, 0)

BigMul(a, b) == Norm(a.m * b.m, a.e + b.e)

\* The plain integer a Big number stands for, when it is small.
BigToInt(a) == a.m * (2 ^ a.e)

\* The wrap of an int64 multiplication.  With 64 - e > 30 bits left for m
\* nothing is cut: every m of the model is below 2^30.
Wrap64(a) ==
    LET w == 64 - a.e
    IN  IF a.m = 0 THEN a
        ELSE IF w <= 0 THEN BigOf(0)
        ELSE IF w > 30 THEN a
        ELSE LET r == a.m % (2 ^ w)
             IN  Norm(IF r >= 2 ^ (w - 1) THEN r - 2 ^ w ELSE r, a.e)

----------------------------------------------------------------------------
(* MemBlock.py *)

\* str(uuid.uuid4())[:8]: the n-th draw, taken to differ from every other draw.
Uuid4(n) == <<"uuid4", n>>

\* The unique_id values a caller passes explicitly.
GivenIds == {<<"unique_id", 1>>}

\* MemBlock._compute_content_signature: a digest of shape, dtype and origin.
ComputeContentSignature(shape, dtype, origin) == <<shape, dtype, origin>>

\* MemBlock.__init__.  depends_on and links_to are stored as given (`x or []`),
\* nothing is written into the blocks they name.  unique_id is used when given,
\* else a uuid4 draw.  first_used / last_used are stored and never read.
\* The constructor checks neither the shape nor the dtype.
MemBlock(name, shape, dtype, origin, depends_on, links_to, unique_id, draw) ==
    [name |-> name,
     shape |-> shape,
     dtype |-> dtype,
     origin |-> origin,
     depends_on |-> depends_on,
     links_to |-> links_to,
     id |-> IF unique_id # None THEN unique_id ELSE Uuid4(draw),
     content_signature |-> ComputeContentSignature(shape, dtype, origin)]

\* MemBlock.__eq__: equality of the identity tokens.
Eq(h, a, b) == h[a].id = h[b].id

\* Python's `b in list` for a list of MemBlocks: some element == b.
In(h, list, b) == \E k \in 1..Len(list) : Eq(h, list[k], b)

\* The object b itself is an element of the list.
Holds(list, b) == \E k \in 1..Len(list) : list[k] = b

\* list.remove(b): drops the first element == b.
ListRemove(h, list, b) ==
    LET k == CHOOSE k \in 1..Len(list) :
                 /\ Eq(h, list[k], b)
                 /\ \A j \in 1..(k - 1) : ~Eq(h, list[j], b)
    IN  SubSeq(list, 1, k - 1) \o SubSeq(list, k + 1, Len(list))

\* A plausible slip: the mirror list of `other` is not updated.
add_dependency_no_mirror(h, self, other) ==
    IF ~In(h, h[self].depends_on, other)
    THEN [h EXCEPT ![self].depends_on = Append(@, other)]
    ELSE h

\* MemBlock.add_dependency: self depends on other.
add_dependency(h, self, other) ==
    LET h1 == IF ~In(h, h[self].depends_on, other)
              THEN [h EXCEPT ![self].depends_on = Append(@, other)]
              ELSE h
    IN  IF ~In(h1, h1[other].links_to, self)
        THEN [h1 EXCEPT ![other].links_to = Append(@, self)]
        ELSE h1

\* MemBlock.remove_dependency.
remove_dependency(h, self, other) ==
    LET h1 == IF In(h, h[self].depends_on, other)
              THEN [h EXCEPT ![self].depends_on = ListRemove(h, @, other)]
              ELSE h
    IN  IF In(h1, h1[other].links_to, self)
        THEN [h1 EXCEPT ![other].links_to = ListRemove(h1, @, self)]
        ELSE h1

\* MemBlock.get_all_dependencies(visited).  A Python set of MemBlocks holds at
\* most one block per _id (__hash__ and __eq__): it is kept as the set of the
\* _id tokens of its elements.  The result is the pair of the visited set as
\* the call leaves it and the set the call returns.
RECURSIVE get_all_dependencies_from(_, _, _), update_deps(_, _, _, _, _)
get_all_dependencies_from(h, self, visited) ==
    IF h[self].id \in visited
    THEN [visited |-> visited, deps |-> {}]
    ELSE update_deps(h, h[self].depends_on, 1, visited \cup {h[self].id},
                     {h[d].id : d \in Range(h[self].depends_on)})

\* for dep in self.depends_on: deps.update(dep.get_all_dependencies(visited)),
\* from the k-th element of the list on
update_deps(h, list, k, visited, deps) ==
    IF k > Len(list) THEN [visited |-> visited, deps |-> deps]
    ELSE LET r == get_all_dependencies_from(h, list[k], visited)
         IN  update_deps(h, list, k + 1, r.visited, deps \cup r.deps)

\* b.get_all_dependencies(): visited is None
get_all_dependencies(h, self) == get_all_dependencies_from(h, self, {}).deps

\* np.dtype(dtype).itemsize; 0 stands for the TypeError of an unknown dtype.
itemsize(dtype) ==
    CASE dtype = "int8" -> 1
      [] dtype = "float32" -> 4
      [] dtype = "float64" -> 8
      [] OTHER -> 0

\* np.prod(shape) of a tuple of Python ints: an int64 product, wrapped at
\* every multiplication.
RECURSIVE np_prod_from(_, _)
np_prod_from(acc, shape) ==
    IF shape = <<>> THEN acc
    ELSE np_prod_from(Wrap64(BigMul(acc, BigOf(shape[1]))), Tail(shape))

np_prod(shape) == np_prod_from(BigOf(1), shape)

\* MemBlock.size_bytes: int(np.prod(self.shape)) * np.dtype(self.dtype).itemsize
size_bytes(mb) ==
    IF itemsize(mb.dtype) = 0 THEN "TypeError"
    ELSE BigMul(np_prod(mb.shape), BigOf(itemsize(mb.dtype)))

----------------------------------------------------------------------------
(* Insertion-ordered dictionaries: sequences of [key, val] entries *)

DictHas(d, k) == \E e \in 1..Len(d) : d[e].key = k

DictGet(d, k) == d[CHOOSE e \in 1..Len(d) : d[e].key = k].val

DictSet(d, k, v) ==
    IF DictHas(d, k)
    THEN [e \in 1..Len(d) |-> IF d[e].key = k THEN [key |-> k, val |-> v] ELSE d[e]]
    ELSE Append(d, [key |-> k, val |-> v])

----------------------------------------------------------------------------
(* The input IRModule: Relax functions and TIR PrimFuncs *)

\* A param of a PrimFunc that buffer_map does not map.
NoBuffer == "<no buffer>"

\* The buffers of the PrimFuncs: tir.Buffer objects with shape and dtype.
Buffer(b) ==
    CASE b = "K_A"   -> [name |-> "A",   shape |-> <<25>>, dtype |-> "float32"]
      [] b = "K_B"   -> [name |-> "B",   shape |-> <<50>>, dtype |-> "float32"]
      [] b = "K_T"   -> [name |-> "T",   shape |-> <<50>>, dtype |-> "float32"]
      [] b = "K_Out" -> [name |-> "Out", shape |-> <<25>>, dtype |-> "float32"]
      [] b = "R_X"   -> [name |-> "X",   shape |-> <<25>>, dtype |-> "float32"]
      [] b = "R_Y"   -> [name |-> "Y",   shape |-> <<5, 5>>, dtype |-> "float32"]
      [] b = "S_X"   -> [name |-> "X",   shape |-> <<25>>, dtype |-> "float32"]
      [] b = "S_W"   -> [name |-> "W",   shape |-> <<25>>, dtype |-> "float32"]
      [] b = "S_Y"   -> [name |-> "Y",   shape |-> <<25>>, dtype |-> "float32"]
      [] b = "P_Out" -> [name |-> "Out", shape |-> <<25>>, dtype |-> "float32"]
      [] b = "P_A"   -> [name |-> "A",   shape |-> <<25>>, dtype |-> "float32"]
      [] b = "P_B"   -> [name |-> "B",   shape |-> <<50>>, dtype |-> "float32"]

\* A tir.Block node of a body, and a tir.Allocate node: storage of the given
\* extents behind buffer_var, which the blocks under it access as a buffer.
Block(alloc_buffers, reads, writes) ==
    [kind |-> "tir.Block", alloc_buffers |-> alloc_buffers, reads |-> reads, writes |-> writes]

Allocate(buffer_var, extents) ==
    [kind |-> "tir.Allocate", buffer_var |-> buffer_var, extents |-> extents]

\* PrimFunc K(A, B, Out): T = f(A, B) in an internal buffer, then Out = copy(T).
\* body lists the statements of func.body in pre-order; out is the parameter
\* the caller's output is passed for.
PrimFuncK ==
    [name |-> "K",
     params |-> <<"K_A", "K_B", "K_Out">>,
     out |-> "K_Out",
     body |-> <<Block(<<"K_T">>, <<>>, <<>>),
                Block(<<>>, <<"K_A", "K_B">>, <<"K_T">>),
                Block(<<>>, <<"K_T">>, <<"K_Out">>)>>]

\* PrimFunc R(X, Y): Y = reshape(X), no internal buffer.
PrimFuncR ==
    [name |-> "R",
     params |-> <<"R_X", "R_Y">>,
     out |-> "R_Y",
     body |-> <<Block(<<>>, <<>>, <<>>),
                Block(<<>>, <<"R_X">>, <<"R_Y">>)>>]

\* PrimFunc S(X, Y): W = f(X) in storage of a tir.Allocate statement, then
\* Y = g(W).
PrimFuncS ==
    [name |-> "S",
     params |-> <<"S_X", "S_Y">>,
     out |-> "S_Y",
     body |-> <<Block(<<>>, <<>>, <<>>),
                Allocate("S_W", <<25>>),
                Block(<<>>, <<"S_X">>, <<"S_W">>),
                Block(<<>>, <<"S_W">>, <<"S_Y">>)>>]

\* PrimFunc P(Out, A, B): Out = f(A, B), the output declared first.
PrimFuncP ==
    [name |-> "P",
     params |-> <<"P_Out", "P_A", "P_B">>,
     out |-> "P_Out",
     body |-> <<Block(<<>>, <<>>, <<>>),
                Block(<<>>, <<"P_A", "P_B">>, <<"P_Out">>)>>]

\* IRModule.functions_items(): the PrimFuncs in the order of their names.
PrimFuncSeqs ==
    {<<>>, <<PrimFuncK>>, <<PrimFuncR>>, <<PrimFuncK, PrimFuncR>>,
     <<PrimFuncS>>, <<PrimFuncR, PrimFuncS>>, <<PrimFuncP>>, <<PrimFuncP, PrimFuncR>>}

\* relax.Var objects of the Relax function, by position.
ParamVars == <<"x1", "x2", "x3", "x4">>
BindVars == <<"lv1", "lv2", "lv3", "lv4">>

\* Parameter k of the Relax function: 100 bytes at odd k, 200 bytes at even k.
ParamSInfo(k) ==
    [shape |-> IF k % 2 = 1 THEN <<25>> ELSE <<50>>, dtype |-> "float32"]

\* call_tir passes the inputs; one parameter of the PrimFunc is for the output.
NumInputs(f) == Len(f.params) - 1

\* The variable of index v: a parameter, or the variable of an earlier binding.
VarAt(nin, v) == IF v <= nin THEN ParamVars[v] ELSE BindVars[v - nin]

\* The most inputs a PrimFunc of the module takes.
MaxArity(tirs) ==
    IF tirs = <<>> THEN 0
    ELSE CHOOSE m \in {NumInputs(f) : f \in Range(tirs)} :
             \A f \in Range(tirs) : NumInputs(f) <= m

\* A module of the family: tirs its PrimFuncs, nin the number of parameters of
\* its Relax function, and one call_tir binding per element of fs: binding j
\* calls PrimFunc tirs[fs[j]] on the variables of indices as[j].
WellFormed(tirs, nin, fs, as) ==
    \A j \in DOMAIN fs :
        \A p \in DOMAIN as[j] :
            IF p <= NumInputs(tirs[fs[j]])
            THEN as[j][p] < nin + j      \* bound before binding j (Relax is in SSA form)
            ELSE as[j][p] = 1            \* unused

Binding(tirs, nin, j, f, a) ==
    [var |-> BindVars[j],
     op |-> "relax.call_tir",
     tir |-> f.name,
     args |-> [p \in 1..NumInputs(f) |-> VarAt(nin, a[p])],
     sinfo |-> [shape |-> Buffer(f.out).shape, dtype |-> Buffer(f.out).dtype]]

Module(tirs, nin, fs, as) ==
    [relax |-> <<[name |-> "main",
                  params |-> [k \in 1..nin |-> [var |-> ParamVars[k], sinfo |-> ParamSInfo(k)]],
                  bindings |-> [j \in DOMAIN fs |-> Binding(tirs, nin, j, tirs[fs[j]], as[j])]]>>,
     tir |-> tirs]

\* A second Relax function of a module: aux(y1) with lw1 = call_tir(R, (y1,)).
RelaxAux ==
    [name |-> "aux",
     params |-> <<[var |-> "y1", sinfo |-> ParamSInfo(1)]>>,
     bindings |-> <<[var |-> "lw1",
                     op |-> "relax.call_tir",
                     tir |-> "R",
                     args |-> <<"y1">>,
                     sinfo |-> [shape |-> Buffer("R_Y").shape, dtype |-> Buffer("R_Y").dtype]]>>]

\* The module with aux after main, when asked for.
WithAux(mod, aux) == IF aux THEN [mod EXCEPT !.relax = Append(@, RelaxAux)] ELSE mod

----------------------------------------------------------------------------
(* AllocationFinder.py.  The operators below work on a record af of the     *)
(* finder's fields together with the heap:                                  *)
(*   [mbs, uuid, memblocks, r2m, t2m, ctxs]                                 *)
(* r2m is relax_var_to_memblock, t2m is tir_buffer_to_memblock (keys        *)
(* <<buffer, context_id>>), ctxs is call_tir_contexts.                      *)

\* MemBlock.from_struct_info: a new block on the heap, its position is Len(mbs).
from_struct_info(af, name, sinfo, origin) ==
    [af EXCEPT !.mbs = Append(@, MemBlock(name, sinfo.shape, sinfo.dtype, origin,
                                          <<>>, <<>>, None, af.uuid + 1)),
               !.uuid = @ + 1]

\* MemBlock.from_tir_buffer
from_tir_buffer(af, name, buffer, origin) ==
    [af EXCEPT !.mbs = Append(@, MemBlock(name, buffer.shape, buffer.dtype, origin,
                                          <<>>, <<>>, None, af.uuid + 1)),
               !.uuid = @ + 1]

\* AllocationFinder.add_memblock: self.memblocks.setdefault(fn, []).append(mb)
add_memblock(af, function_name, mb) ==
    LET old == IF DictHas(af.memblocks, function_name)
               THEN DictGet(af.memblocks, function_name) ELSE <<>>
    IN  [af EXCEPT !.memblocks = DictSet(@, function_name, Append(old, mb))]

\* CallTirContext.__init__
CallTirContext(tir_func_name, input_memblocks, output_memblock, input_var_names) ==
    [tir_func_name |-> tir_func_name,
     input_memblocks |-> input_memblocks,
     output_memblock |-> output_memblock,
     input_var_names |-> input_var_names,
     output_param_indices |-> {}]

\* AllocationFinder._process_call_tir
process_call_tir(af, relax_func_name, binding) ==
    LET a1 == from_struct_info(af, binding.var, binding.sinfo,
                               <<"relax.call_tir", binding.tir>>)
        output_mb == Len(a1.mbs)
        a2 == add_memblock(a1, relax_func_name, output_mb)
        a3 == [a2 EXCEPT !.r2m = DictSet(@, binding.var, output_mb)]
        context == CallTirContext(
                       binding.tir,
                       [k \in 1..Len(binding.args) |-> DictGet(a3.r2m, binding.args[k])],
                       output_mb,
                       binding.args)
        old == IF DictHas(a3.ctxs, binding.tir) THEN DictGet(a3.ctxs, binding.tir) ELSE <<>>
    IN  [a3 EXCEPT !.ctxs = DictSet(@, binding.tir, Append(old, context))]

\* AllocationFinder.visit_relax_func, the loop over func.params from the k-th on
RECURSIVE visit_relax_params(_, _, _)
visit_relax_params(af, func, k) ==
    IF k > Len(func.params) THEN af
    ELSE LET p == func.params[k]
             a1 == from_struct_info(af, p.var, p.sinfo, <<"relax.input", func.name>>)
             mb == Len(a1.mbs)
             a2 == add_memblock(a1, func.name, mb)
             a3 == [a2 EXCEPT !.r2m = DictSet(@, p.var, mb)]
         IN  visit_relax_params(a3, func, k + 1)

\* AllocationFinder.visit_relax_func, the loop over the bindings from the k-th on
RECURSIVE visit_relax_bindings(_, _, _)
visit_relax_bindings(af, func, k) ==
    IF k > Len(func.bindings) THEN af
    ELSE LET b == func.bindings[k]
             a1 == IF b.op = "relax.call_tir" THEN process_call_tir(af, func.name, b) ELSE af
         IN  visit_relax_bindings(a1, func, k + 1)

\* AllocationFinder.visit_relax_func
visit_relax_func(af, func) ==
    visit_relax_bindings(visit_relax_params(af, func, 1), func, 1)

\* _buffer_matches_output_shape
buffer_matches_output_shape(buffer, output_mb) ==
    buffer.shape = output_mb.shape /\ buffer.dtype = output_mb.dtype

\* AllocationFinder._identify_output_parameters: the context's
\* output_param_indices after the analysis of every block and the fallback.
identify_output_parameters(h, func, context) ==
    LET n == Len(func.params)
        written(i) ==
            \E k \in 1..Len(func.body) :
                LET blk == func.body[k]
                    buf == func.params[i + 1]
                IN  /\ blk.kind = "tir.Block"
                    /\ buf # NoBuffer
                    /\ buf \in Range(blk.writes)
                    /\ \/ buf \notin Range(blk.reads)
                       \/ buffer_matches_output_shape(Buffer(buf), h[context.output_memblock])
        marked == context.output_param_indices \cup {i \in 0..(n - 1) : written(i)}
    IN  IF marked = {} /\ n > 0 THEN {n - 1} ELSE marked

\* AllocationFinder.visit_tir_func, the body of the loop over func.params for
\* one context: parameter i (0-based) of buffer `buffer`.
bind_parameter(t2m, context, buffer, i, context_idx) ==
    IF buffer = NoBuffer THEN t2m
    ELSE IF i \in context.output_param_indices
         THEN DictSet(t2m, <<buffer, context_idx>>, context.output_memblock)
         ELSE IF i < Len(context.input_memblocks)
              THEN DictSet(t2m, <<buffer, context_idx>>, context.input_memblocks[i + 1])
              ELSE t2m

RECURSIVE bind_parameters(_, _, _, _, _)
bind_parameters(t2m, context, func, i, context_idx) ==
    IF i >= Len(func.params) THEN t2m
    ELSE bind_parameters(bind_parameter(t2m, context, func.params[i + 1], i, context_idx),
                         context, func, i + 1, context_idx)

\* AllocationFinder.visit_tir_func, the loop over the contexts from context_idx on:
\* output inference, then parameter mapping.
RECURSIVE map_contexts(_, _, _)
map_contexts(af, func, context_idx) ==
    LET contexts == DictGet(af.ctxs, func.name)
    IN  IF context_idx >= Len(contexts) THEN af
        ELSE LET c0 == contexts[context_idx + 1]
                 c1 == [c0 EXCEPT !.output_param_indices =
                                      identify_output_parameters(af.mbs, func, c0)]
                 a1 == [af EXCEPT !.ctxs = DictSet(@, func.name,
                                               [contexts EXCEPT ![context_idx + 1] = c1]),
                                  !.t2m = bind_parameters(@, c1, func, 0, context_idx)]
             IN  map_contexts(a1, func, context_idx + 1)

\* AllocationFinder.visit_tir_func, no context: parameters from the i-th on
\* (0-based) become standalone blocks under context_id 0.
RECURSIVE standalone_params(_, _, _)
standalone_params(af, func, i) ==
    IF i >= Len(func.params) THEN af
    ELSE LET buffer == func.params[i + 1]
             a1 == from_tir_buffer(af, Buffer(buffer).name, Buffer(buffer),
                                   <<"tir.param", func.name>>)
             mb == Len(a1.mbs)
             a2 == add_memblock(a1, func.name, mb)
             a3 == [a2 EXCEPT !.t2m = DictSet(@, <<buffer, 0>>, mb)]
         IN  standalone_params(IF buffer = NoBuffer THEN af ELSE a3, func, i + 1)

\* A plausible slip: the search for an existing block never finds one.
find_existing_never(af, buf, func_name) == 0

\* AllocationFinder._process_tir_body.visit_allocations, the search for a block
\* already made for buf: the first entry of tir_buffer_to_memblock whose buffer
\* is buf and whose block has origin tir.alloc.<func_name>; 0 when there is none.
find_existing(af, buf, func_name) ==
    LET hits == {e \in 1..Len(af.t2m) :
                    /\ af.t2m[e].key[1] = buf
                    /\ af.mbs[af.t2m[e].val].origin = <<"tir.alloc", func_name>>}
    IN  IF hits = {} THEN 0
        ELSE af.t2m[CHOOSE e \in hits : \A e2 \in hits : e <= e2].val

\* visit_allocations, the loop over node.alloc_buffers from the k-th on
RECURSIVE visit_alloc_buffers(_, _, _, _, _)
visit_alloc_buffers(af, func_name, alloc_buffers, k, context_idx) ==
    IF k > Len(alloc_buffers) THEN af
    ELSE LET buf == alloc_buffers[k]
             existing_mb == find_existing(af, buf, func_name)
             a1 == from_tir_buffer(af, Buffer(buf).name, Buffer(buf),
                                   <<"tir.alloc", func_name>>)
             mb == Len(a1.mbs)
             a2 == add_memblock(a1, func_name, mb)
             created == [a2 EXCEPT !.t2m = DictSet(@, <<buf, context_idx>>, mb)]
             reused == [af EXCEPT !.t2m = DictSet(@, <<buf, context_idx>>, existing_mb)]
         IN  visit_alloc_buffers(IF existing_mb = 0 THEN created ELSE reused,
                                 func_name, alloc_buffers, k + 1, context_idx)

\* _build_tir_dependencies, the blocks the context maps the regions' buffers to
RECURSIVE resolve(_, _, _)
resolve(t2m, buffers, context_idx) ==
    IF buffers = <<>> THEN <<>>
    ELSE (IF DictHas(t2m, <<buffers[1], context_idx>>)
          THEN <<DictGet(t2m, <<buffers[1], context_idx>>)>>
          ELSE <<>>) \o resolve(t2m, Tail(buffers), context_idx)

\* A plausible slip: the edge is recorded in the wrong direction.
wire_reversed(h, writer, reader) ==
    IF h[writer].id # h[reader].id
    THEN LET h1 == IF ~In(h, h[reader].depends_on, writer)
                   THEN [h EXCEPT ![reader].depends_on = Append(@, writer)]
                   ELSE h
         IN  IF ~In(h1, h1[writer].links_to, reader)
             THEN [h1 EXCEPT ![writer].links_to = Append(@, reader)]
             ELSE h1
    ELSE h

\* A plausible slip: the reader's links_to is not updated.
wire_no_link(h, writer, reader) ==
    IF h[writer].id # h[reader].id /\ ~In(h, h[writer].depends_on, reader)
    THEN [h EXCEPT ![writer].depends_on = Append(@, reader)]
    ELSE h

\* _build_tir_dependencies, the body of the double loop for one (writer, reader)
wire(h, writer, reader) ==
    IF h[writer].id # h[reader].id
    THEN LET h1 == IF ~In(h, h[writer].depends_on, reader)
                   THEN [h EXCEPT ![writer].depends_on = Append(@, reader)]
                   ELSE h
         IN  IF ~In(h1, h1[reader].links_to, writer)
             THEN [h1 EXCEPT ![reader].links_to = Append(@, writer)]
             ELSE h1
    ELSE h

RECURSIVE wire_pairs(_, _)
wire_pairs(h, pairs) ==
    IF pairs = <<>> THEN h
    ELSE wire_pairs(wire(h, pairs[1][1], pairs[1][2]), Tail(pairs))

\* AllocationFinder._build_tir_dependencies
build_tir_dependencies(af, block, context_idx) ==
    LET write_memblocks == resolve(af.t2m, block.writes, context_idx)
        read_memblocks == resolve(af.t2m, block.reads, context_idx)
        nr == Len(read_memblocks)
        pairs == [k \in 1..(Len(write_memblocks) * nr) |->
                     <<write_memblocks[((k - 1) \div nr) + 1],
                       read_memblocks[((k - 1) % nr) + 1]>>]
    IN  [af EXCEPT !.mbs = wire_pairs(@, pairs)]

\* AllocationFinder._process_tir_body: pre_order_visit over the statements from
\* the k-th on, visit_allocations on each; a node that is no tir.Block is
\* passed over.
RECURSIVE process_tir_body(_, _, _, _)
process_tir_body(af, func, k, context_idx) ==
    IF k > Len(func.body) THEN af
    ELSE LET node == func.body[k]
             a1 == visit_alloc_buffers(af, func.name, node.alloc_buffers, 1, context_idx)
             a2 == build_tir_dependencies(a1, node, context_idx)
         IN  process_tir_body(IF node.kind = "tir.Block" THEN a2 ELSE af,
                              func, k + 1, context_idx)

\* AllocationFinder.visit_tir_func, the final loop: the body once per context,
\* once with context_idx 0 when there is none.
RECURSIVE process_bodies(_, _, _, _)
process_bodies(af, func, context_idx, n) ==
    IF context_idx >= n THEN af
    ELSE process_bodies(process_tir_body(af, func, 1, context_idx), func, context_idx + 1, n)

\* AllocationFinder.visit_tir_func
visit_tir_func(af, func) ==
    LET contexts == IF DictHas(af.ctxs, func.name) THEN DictGet(af.ctxs, func.name) ELSE <<>>
        a1 == IF contexts = <<>>
              THEN standalone_params(af, func, 0)
              ELSE map_contexts(af, func, 0)
    IN  process_bodies(a1, func, 0, IF contexts = <<>> THEN 1 ELSE Len(contexts))

----------------------------------------------------------------------------
(* MinizincGenerator.py.  A constraint line is kept as the tuple of what its *)
(* f-string interpolates:                                                    *)
(*   <<"alive", j, i>>   constraint posX[j] + sizeX[j] >= posX[i] + op_cost[i]; *)
(*   <<"before", j, i>>  constraint posX[j] <= posX[i];                      *)
(*   <<"leaf", i, j>>    constraint posX[i] >= posX[j] - 1;                  *)
(* An index_dep_info entry "j,i" is [pre, j, i, post] with the "|" marks put *)
(* before the first and after the last entry.                                *)

\* for blocks in alloc_finder.memblocks.values(): memblocks.extend(blocks)
RECURSIVE flatten(_)
flatten(d) == IF d = <<>> THEN <<>> ELSE d[1].val \o flatten(Tail(d))

\* transfer_fn, by default the identity
transfer_fn(x) == x

\* ceil(x / m) for positive integers
CeilDiv(x, m) == (x + m - 1) \div m

Max(a, b) == IF a >= b THEN a ELSE b

\* floor(log2(x)) for x >= 1
RECURSIVE FloorLog2(_)
FloorLog2(x) == IF x <= 1 THEN 0 ELSE 1 + FloorLog2(x \div 2)

\* The transfer functions a caller passes: the default, lambda x: np.log2(x)
\* and lambda x: x / 2.  int_transfer is int(transfer_fn(x)) for x >= 1.
TransferFns == {"default", "log2", "halve"}

int_transfer(tf, x) ==
    CASE tf = "default" -> transfer_fn(x)
      [] tf = "log2" -> FloorLog2(x)
      [] tf = "halve" -> x \div 2

\* sizeY: max(1, int(transfer_fn(np.prod(shape)))), then ceil(x / min(sizeY))
SizeYWith(h, flat, tf) ==
    LET raw == [k \in 1..Len(flat) |-> Max(1, int_transfer(tf, ProdSeq(h[flat[k]].shape)))]
    IN  [k \in 1..Len(flat) |-> CeilDiv(raw[k], MinSeq(raw))]

\* sizeY under the default transfer function
SizeY(h, flat) == SizeYWith(h, flat, "default")

\* A plausible slip: the index of a block is read off its token.
mb_index_of_token(h, flat, id) == id[2]

\* mb_index = {mb._id: i + 1 ...}: a later block of the same _id overwrites; 0: no key
mb_index(h, flat, id) ==
    LET at == {k \in 1..Len(flat) : h[flat[k]].id = id}
    IN  IF at = {} THEN 0 ELSE CHOOSE k \in at : \A k2 \in at : k2 <= k

\* The lifetime loop: for mb in memblocks, for dep in mb.depends_on
RECURSIVE dep_pairs(_, _, _)
dep_pairs(h, flat, k) ==
    IF k > Len(flat) THEN <<>>
    ELSE LET mb == h[flat[k]]
             i == mb_index(h, flat, mb.id)
         IN  [d \in 1..Len(mb.depends_on) |->
                  <<mb_index(h, flat, h[mb.depends_on[d]].id), i>>]
             \o dep_pairs(h, flat, k + 1)

RECURSIVE lifetime_lines(_)
lifetime_lines(pairs) ==
    IF pairs = <<>> THEN <<>>
    ELSE <<<<"alive", pairs[1][1], pairs[1][2]>>, <<"before", pairs[1][1], pairs[1][2]>>>>
         \o lifetime_lines(Tail(pairs))

\* index_dep_info with index_dep_info[0] = "|" + ... and index_dep_info[-1] += "|"
dep_info(pairs) ==
    [k \in 1..Len(pairs) |->
        [pre |-> IF k = 1 THEN "|" ELSE "", j |-> pairs[k][1], i |-> pairs[k][2],
         post |-> IF k = Len(pairs) THEN "|" ELSE ""]]

\* The leaf loop from the k-th block on: the lines it appends, or the exception
\* that ends it.
RECURSIVE leaf_loop(_, _, _)
leaf_loop(h, flat, k) ==
    IF k > Len(flat) THEN [error |-> "", lines |-> <<>>]
    ELSE LET mb == h[flat[k]]
             i == mb_index(h, flat, mb.id)
             rest == leaf_loop(h, flat, k + 1)
         IN  IF mb.depends_on # <<>> THEN rest
             ELSE IF Len(mb.links_to) > 1 THEN [error |-> "NotImplementedError", lines |-> <<>>]
             ELSE IF mb.links_to = <<>> THEN [error |-> "IndexError", lines |-> <<>>]
             ELSE IF mb_index(h, flat, h[mb.links_to[1]].id) = 0
                  THEN [error |-> "KeyError", lines |-> <<>>]
             ELSE IF rest.error # "" THEN rest
             ELSE [error |-> "",
                   lines |-> <<<<"leaf", i, mb_index(h, flat, h[mb.links_to[1]].id)>>>>
                             \o rest.lines]

\* What a call that raised leaves behind: no model text, no data.
Raised(error) ==
    [status |-> error, n |-> 0, n_dep |-> 0, memsize |-> 0, max_time |-> 0,
     sizeY |-> <<>>, op_cost |-> <<>>, lifetime_constraints |-> <<>>,
     index_dep_info |-> <<>>, leaf_constraints |-> <<>>]

\* generate_minizinc_model
generate_minizinc_model(h, memblocks_dict) ==
    LET flat == flatten(memblocks_dict)
        sizeY == SizeY(h, flat)
        op_cost == [k \in 1..Len(flat) |-> 1]
        n == Len(flat)
        pairs == dep_pairs(h, flat, 1)
        leaves == leaf_loop(h, flat, 1)
    IN  IF \E k \in 1..Len(pairs) : pairs[k][1] = 0 THEN Raised("KeyError")
        ELSE IF pairs = <<>> THEN Raised("IndexError")
        ELSE IF leaves.error # "" THEN Raised(leaves.error)
        ELSE [status |-> "ok",
              n |-> n,
              n_dep |-> Len(pairs),
              memsize |-> SumSeq(sizeY) \div 2,
              max_time |-> 3 * n + 3 * SumSeq(op_cost),
              sizeY |-> sizeY,
              op_cost |-> op_cost,
              lifetime_constraints |-> lifetime_lines(pairs),
              index_dep_info |-> dep_info(pairs),
              leaf_constraints |-> leaves.lines]

\* What a caller constructs blocks with (test.py).
Contents ==
    {[name |-> "A", shape |-> <<1>>, dtype |-> "float32", origin |-> None],
     [name |-> "y", shape |-> <<4, 4>>, dtype |-> "int8", origin |-> None]}

\* last: the operation, its receiver and argument, and the number of
\* add_dependency / remove_dependency calls made so far.
NoOp == [op |-> "none", self |-> 0, other |-> 0, n |-> 0]

----------------------------------------------------------------------------
(* A caller of the MemBlock class *)

NoFinder ==
    /\ prog = <<>>
    /\ memblocks = <<>>
    /\ relax_var_to_memblock = <<>>
    /\ tir_buffer_to_memblock = <<>>
    /\ call_tir_contexts = <<>>
    /\ out = <<>>
    /\ solution = <<>>

Init ==
    /\ mbs = <<>>
    /\ uuid_count = 0
    /\ last = NoOp
    /\ pc = [phase |-> "caller", i |-> 0]
    /\ NoFinder

\* MemBlock(name, shape, dtype, origin, depends_on=..., links_to=..., unique_id=...)
Create ==
    /\ pc.phase = "caller"
    /\ Len(mbs) < MaxBlocks
    /\ \E c \in Contents, uid \in GivenIds \cup {None},
          deps \in SeqsUpTo(DOMAIN mbs, MaxInitList),
          links \in SeqsUpTo(DOMAIN mbs, MaxInitList) :
          /\ mbs' = Append(mbs, MemBlock(c.name, c.shape, c.dtype, c.origin,
                                         deps, links, uid, uuid_count + 1))
          /\ uuid_count' = IF uid = None THEN uuid_count + 1 ELSE uuid_count
          /\ last' = [op |-> "create", self |-> Len(mbs) + 1, other |-> 0,
                      n |-> last.n]
    /\ UNCHANGED <<pc, prog, memblocks, relax_var_to_memblock,
                   tir_buffer_to_memblock, call_tir_contexts, out, solution>>

\* self.add_dependency(other), self and other any two blocks (also the same one)
AddDependency ==
    /\ pc.phase = "caller"
    /\ last.n < MaxOps
    /\ \E self \in DOMAIN mbs, other \in DOMAIN mbs :
          /\ mbs' = add_dependency(mbs, self, other)
          /\ last' = [op |-> "add", self |-> self, other |-> other,
                      n |-> last.n + 1]
    /\ UNCHANGED <<uuid_count, pc, prog, memblocks, relax_var_to_memblock,
                   tir_buffer_to_memblock, call_tir_contexts, out, solution>>

\* self.remove_dependency(other)
RemoveDependency ==
    /\ pc.phase = "caller"
    /\ last.n < MaxOps
    /\ \E self \in DOMAIN mbs, other \in DOMAIN mbs :
          /\ mbs' = remove_dependency(mbs, self, other)
          /\ last' = [op |-> "remove", self |-> self, other |-> other,
                      n |-> last.n + 1]
    /\ UNCHANGED <<uuid_count, pc, prog, memblocks, relax_var_to_memblock,
                   tir_buffer_to_memblock, call_tir_contexts, out, solution>>

Next == Create \/ AddDependency \/ RemoveDependency

Spec == Init /\ [][Next]_vars

----------------------------------------------------------------------------
(* AllocationFinder(mod).walk() followed by generate_minizinc_model *)

AF == [mbs |-> mbs, uuid |-> uuid_count, memblocks |-> memblocks,
       r2m |-> relax_var_to_memblock, t2m |-> tir_buffer_to_memblock,
       ctxs |-> call_tir_contexts]

SetAF(af) ==
    /\ mbs' = af.mbs
    /\ uuid_count' = af.uuid
    /\ memblocks' = af.memblocks
    /\ relax_var_to_memblock' = af.r2m
    /\ tir_buffer_to_memblock' = af.t2m
    /\ call_tir_contexts' = af.ctxs

\* walk(): where the two loops stand after the Relax functions up to the i-th
\* (phase "relax") or the PrimFuncs up to the i-th (phase "tir") are visited.
\* A plausible slip: pass 2 starts once the first Relax function is visited.
AfterRelax_first(i) ==
    IF Len(prog.tir) > 0 THEN [phase |-> "tir", i |-> 1]
    ELSE [phase |-> "walked", i |-> 0]

AfterRelax(i) ==
    IF i < Len(prog.relax) THEN [phase |-> "relax", i |-> i + 1]
    ELSE IF Len(prog.tir) > 0 THEN [phase |-> "tir", i |-> 1]
    ELSE [phase |-> "walked", i |-> 0]

AfterTir(i) ==
    IF i < Len(prog.tir) THEN [phase |-> "tir", i |-> i + 1]
    ELSE [phase |-> "walked", i |-> 0]

\* AllocationFinder.__init__ on any module of the family
InitWalk ==
    /\ \E tirs \in PrimFuncSeqs, nin \in 0..MaxInputs, n \in 0..MaxCalls :
          \E fs \in [1..n -> 1..Len(tirs)],
             as \in [1..n -> [1..MaxArity(tirs) -> 1..(nin + n)]] :
             /\ WellFormed(tirs, nin, fs, as)
             /\ \E aux \in {a \in BOOLEAN : a => PrimFuncR \in Range(tirs)} :
                   prog = WithAux(Module(tirs, nin, fs, as), aux)
    /\ mbs = <<>>
    /\ uuid_count = 0
    /\ last = NoOp
    /\ pc = [phase |-> "relax", i |-> 1]
    /\ memblocks = <<>>
    /\ relax_var_to_memblock = <<>>
    /\ tir_buffer_to_memblock = <<>>
    /\ call_tir_contexts = <<>>
    /\ out = <<>>
    /\ solution = <<>>

\* walk(), pass 1, one Relax function
VisitRelaxFunc ==
    /\ pc.phase = "relax"
    /\ SetAF(visit_relax_func(AF, prog.relax[pc.i]))
    /\ pc' = AfterRelax(pc.i)
    /\ UNCHANGED <<last, prog, out, solution>>

\* walk(), pass 2, one PrimFunc
VisitTirFunc ==
    /\ pc.phase = "tir"
    /\ SetAF(visit_tir_func(AF, prog.tir[pc.i]))
    /\ pc' = AfterTir(pc.i)
    /\ UNCHANGED <<last, prog, out, solution>>

\* generate_minizinc_model(alloc_finder) once walk() has returned
Generate ==
    /\ pc.phase = "walked"
    /\ out' = generate_minizinc_model(mbs, memblocks)
    /\ pc' = [phase |-> "generated", i |-> 0]
    /\ UNCHANGED <<mbs, uuid_count, last, prog, memblocks, relax_var_to_memblock,
                   tir_buffer_to_memblock, call_tir_contexts, solution>>

NextWalk == VisitRelaxFunc \/ VisitTirFunc \/ Generate

SpecWalk == InitWalk /\ [][NextWalk]_vars

----------------------------------------------------------------------------
(* The sizeY computation of generate_minizinc_model on any list of blocks   *)
(* and under any of the transfer functions                                  *)

\* Well-formed shapes and element types of the listed blocks.
SizeShapes == {<<8>>, <<16>>, <<3, 5>>}
SizeDtypes == {"int8", "float32"}

\* A finder whose memblocks lists n blocks under one function.
InitSizes ==
    /\ \E n \in 1..MaxListed :
          \E shapes \in [1..n -> SizeShapes], dtypes \in [1..n -> SizeDtypes] :
             mbs = [k \in 1..n |-> MemBlock("t", shapes[k], dtypes[k], None,
                                            <<>>, <<>>, None, k)]
    /\ uuid_count = Len(mbs)
    /\ memblocks = <<[key |-> "main", val |-> [k \in 1..Len(mbs) |-> k]]>>
    /\ last = NoOp
    /\ pc = [phase |-> "listed", i |-> 0]
    /\ prog = <<>>
    /\ relax_var_to_memblock = <<>>
    /\ tir_buffer_to_memblock = <<>>
    /\ call_tir_contexts = <<>>
    /\ out = <<>>
    /\ solution = <<>>

\* generate_minizinc_model(alloc_finder, transfer_fn=tf), lines 32-42
ComputeSizeY ==
    /\ pc.phase = "listed"
    /\ \E tf \in TransferFns :
          out' = [transfer_fn |-> tf,
                  sizeY |-> SizeYWith(mbs, flatten(memblocks), tf)]
    /\ pc' = [phase |-> "sized", i |-> 0]
    /\ UNCHANGED <<mbs, uuid_count, last, prog, memblocks, relax_var_to_memblock,
                   tir_buffer_to_memblock, call_tir_contexts, solution>>

NextSizes == ComputeSizeY

SpecSizes == InitSizes /\ [][NextSizes]_vars

----------------------------------------------------------------------------
(* The constraints of the emitted MiniZinc model, read on an assignment     *)
(* a = [posX, posY, sizeX] of the decision variables, for the data m        *)

\* var 1..max_time: sizeX; var 0..max_time: posX; var 0..(memsize-1): posY
domains(m, a) ==
    \A i \in 1..m.n :
        /\ a.sizeX[i] \in 1..m.max_time
        /\ a.posX[i] \in 0..m.max_time
        /\ a.posY[i] \in 0..(m.memsize - 1)

\* constraint forall(i in 1..n) (posY[i] + sizeY[i] <= memsize);
capacity(m, a) == \A i \in 1..m.n : a.posY[i] + m.sizeY[i] <= m.memsize

\* One line of dependency_block or leaf_block
line_holds(m, a, line) ==
    CASE line[1] = "alive" ->
             a.posX[line[2]] + a.sizeX[line[2]] >= a.posX[line[3]] + m.op_cost[line[3]]
      [] line[1] = "before" -> a.posX[line[2]] <= a.posX[line[3]]
      [] line[1] = "leaf" -> a.posX[line[2]] >= a.posX[line[3]] - 1

\* A plausible slip: the non-overlap constraint is left commented out.
diffn_k_absent(m, a) == TRUE

\* constraint diffn_k(positions, sizes): any two boxes are apart in time or
\* apart in memory.
diffn_k(m, a) ==
    \A i \in 1..m.n, j \in 1..m.n :
        i < j =>
            \/ a.posX[i] + a.sizeX[i] <= a.posX[j]
            \/ a.posX[j] + a.sizeX[j] <= a.posX[i]
            \/ a.posY[i] + m.sizeY[i] <= a.posY[j]
            \/ a.posY[j] + m.sizeY[j] <= a.posY[i]

\* var 1..max_time: total_time = max([posX[i] + sizeX[i] | i in 1..n]), and the
\* redundant constraint total_time * memsize >= sum(sizeX[i] * sizeY[i])
total_time(m, a) ==
    \E t \in 1..m.max_time :
        /\ \A i \in 1..m.n : a.posX[i] + a.sizeX[i] <= t
        /\ \E i \in 1..m.n : a.posX[i] + a.sizeX[i] = t
        /\ t * m.memsize >= SumSeq([i \in 1..m.n |-> a.sizeX[i] * m.sizeY[i]])

satisfies(m, a) ==
    /\ domains(m, a)
    /\ capacity(m, a)
    /\ \A k \in 1..Len(m.lifetime_constraints) : line_holds(m, a, m.lifetime_constraints[k])
    /\ \A k \in 1..Len(m.leaf_constraints) : line_holds(m, a, m.leaf_constraints[k])
    /\ diffn_k(m, a)
    /\ total_time(m, a)

\* The sizeY values of the data a model of three blocks is solved with.
SolveSizes == {1, 2, 3}

\* A model of three blocks without dependency lines: memsize as line 95
\* computes it, the time horizon max_time cut to MaxTime.
InitSolve ==
    /\ \E sizeY \in [1..3 -> SolveSizes] :
          out = [status |-> "ok", n |-> 3, n_dep |-> 0,
                 memsize |-> SumSeq(sizeY) \div 2,
                 max_time |-> MaxTime,
                 sizeY |-> sizeY,
                 op_cost |-> [k \in 1..3 |-> 1],
                 lifetime_constraints |-> <<>>,
                 index_dep_info |-> <<>>,
                 leaf_constraints |-> <<>>]
    /\ solution = <<>>
    /\ pc = [phase |-> "emitted", i |-> 0]
    /\ mbs = <<>>
    /\ uuid_count = 0
    /\ last = NoOp
    /\ prog = <<>>
    /\ memblocks = <<>>
    /\ relax_var_to_memblock = <<>>
    /\ tir_buffer_to_memblock = <<>>
    /\ call_tir_contexts = <<>>

\* The solver returns any assignment that satisfies the model.
Solve ==
    /\ pc.phase = "emitted"
    /\ \E posY \in [1..out.n -> 0..(out.memsize - 1)] :
          \E posX \in [1..out.n -> 0..out.max_time] :
             \E sizeX \in [1..out.n -> 1..out.max_time] :
                LET a == [posX |-> posX, posY |-> posY, sizeX |-> sizeX]
                IN  /\ satisfies(out, a)
                    /\ solution' = a
    /\ pc' = [phase |-> "solved", i |-> 0]
    /\ UNCHANGED <<mbs, uuid_count, last, prog, memblocks, relax_var_to_memblock,
                   tir_buffer_to_memblock, call_tir_contexts, out>>

NextSolve == Solve

SpecSolve == InitSolve /\ [][NextSolve]_vars

\* AllocationFinder(mod).walk() as one run, from a finder just constructed, in
\* a process that has made uuid0 draws of uuid4 before.
RECURSIVE walk_relax(_, _, _), walk_tir(_, _, _)
walk_relax(af, mod, i) ==
    IF i > Len(mod.relax) THEN af
    ELSE walk_relax(visit_relax_func(af, mod.relax[i]), mod, i + 1)

walk_tir(af, mod, i) ==
    IF i > Len(mod.tir) THEN af
    ELSE walk_tir(visit_tir_func(af, mod.tir[i]), mod, i + 1)

walk(mod, uuid0) ==
    walk_tir(walk_relax([mbs |-> <<>>, uuid |-> uuid0, memblocks |-> <<>>,
                         r2m |-> <<>>, t2m |-> <<>>, ctxs |-> <<>>], mod, 1), mod, 1)

----------------------------------------------------------------------------
(* A caller that constructs blocks of any shape and dtype and reads their   *)
(* size_bytes                                                               *)

\* The shapes and dtypes a caller passes to MemBlock(...).
MadeShapes ==
    {<<4, 4>>, <<4, 8>>, <<0>>, <<-1, 4>>,
     <<2 ^ 30, 2 ^ 30, 2>>, <<2 ^ 30, 2 ^ 30, 8>>, <<2 ^ 30, 2 ^ 30, 16>>}

MadeDtypes == {"float32", "int8", "floatX"}

InitBytes ==
    /\ mbs = <<>>
    /\ uuid_count = 0
    /\ last = NoOp
    /\ pc = [phase |-> "unit", i |-> 0]
    /\ NoFinder

\* MemBlock(name, shape, dtype): __init__ stores what it is given and returns.
Construct ==
    /\ pc.phase = "unit"
    /\ Len(mbs) < MaxMade
    /\ \E shape \in MadeShapes, dtype \in MadeDtypes :
          /\ mbs' = Append(mbs, MemBlock("t", shape, dtype, None, <<>>, <<>>, None,
                                         uuid_count + 1))
          /\ last' = [op |-> "create", self |-> Len(mbs) + 1, other |-> 0, n |-> 0,
                      shape |-> shape, dtype |-> dtype]
    /\ uuid_count' = uuid_count + 1
    /\ UNCHANGED <<pc, prog, memblocks, relax_var_to_memblock,
                   tir_buffer_to_memblock, call_tir_contexts, out, solution>>

\* mb.size_bytes, the property read on any block
SizeBytes ==
    /\ pc.phase = "unit"
    /\ \E b \in DOMAIN mbs :
          /\ out' = [self |-> b, size_bytes |-> size_bytes(mbs[b])]
          /\ last' = [op |-> "size_bytes", self |-> b, other |-> 0, n |-> 0]
    /\ UNCHANGED <<mbs, uuid_count, pc, prog, memblocks, relax_var_to_memblock,
                   tir_buffer_to_memblock, call_tir_contexts, solution>>

NextBytes == Construct \/ SizeBytes

SpecBytes == InitBytes /\ [][NextBytes]_vars

----------------------------------------------------------------------------
(* A caller that builds a dependency graph and asks a block for all its     *)
(* dependencies                                                             *)

SeqsNoRep(S, n) ==
    {q \in SeqsUpTo(S, n) : \A i \in 1..Len(q), j \in 1..Len(q) : i # j => q[i] # q[j]}

\* a.add_dependency(b) for every b of lists[a], block after block
RECURSIVE add_all(_, _, _, _)
add_all(h, lists, a, k) ==
    IF a > Len(lists) THEN h
    ELSE IF k > Len(lists[a]) THEN add_all(h, lists, a + 1, 1)
    ELSE add_all(add_dependency(h, a, lists[a][k]), lists, a, k + 1)

\* n blocks, each made with a unique_id or without, then the add_dependency
\* calls of any lists of up to MaxDeps blocks per block.
InitDeps ==
    /\ \E n \in 1..MaxNodes :
          \E uid \in [1..n -> GivenIds \cup {None}],
             lists \in [1..n -> SeqsNoRep(1..n, MaxDeps)] :
             mbs = add_all([k \in 1..n |-> MemBlock("t", <<1>>, "float32", None,
                                                     <<>>, <<>>, uid[k], k)],
                           lists, 1, 1)
    /\ uuid_count = Len(mbs)
    /\ last = NoOp
    /\ pc = [phase |-> "graph", i |-> 0]
    /\ NoFinder

\* b.get_all_dependencies()
GetAllDependencies ==
    /\ pc.phase = "graph"
    /\ \E b \in DOMAIN mbs :
          /\ out' = [self |-> b, deps |-> get_all_dependencies(mbs, b)]
          /\ last' = [op |-> "get_all_dependencies", self |-> b, other |-> 0, n |-> 0]
    /\ UNCHANGED <<mbs, uuid_count, pc, prog, memblocks, relax_var_to_memblock,
                   tir_buffer_to_memblock, call_tir_contexts, solution>>

NextDeps == GetAllDependencies

SpecDeps == InitDeps /\ [][NextDeps]_vars

----------------------------------------------------------------------------
(* Notions the properties are stated with *)

Walked == pc.phase \in {"walked", "generated"}

\* The blocks a block depends on directly, and the blocks reachable from it by
\* one or more depends_on steps.
DirectDeps(h, S) == UNION {Range(h[a].depends_on) : a \in S}

RECURSIVE Closure(_, _)
Closure(h, S) ==
    LET T == S \cup DirectDeps(h, S)
    IN  IF T = S THEN S ELSE Closure(h, T)

TransitiveDeps(h, a) == Closure(h, DirectDeps(h, {a}))

\* The edges of the graph as pairs <<consumer, producer>>, as depends_on records
\* them and as links_to records them.
DependsOnEdges(h) == {<<a, b>> \in (DOMAIN h) \X (DOMAIN h) : Holds(h[a].depends_on, b)}
LinksToEdges(h) == {<<a, b>> \in (DOMAIN h) \X (DOMAIN h) : Holds(h[b].links_to, a)}

Count(s, x) == Cardinality({k \in 1..Len(s) : s[k] = x})

Contexts(name) ==
    IF DictHas(call_tir_contexts, name) THEN DictGet(call_tir_contexts, name) ELSE <<>>

\* The buffers a PrimFunc declares inside its body.
InternalBuffers(f) ==
    UNION {Range(f.body[k].alloc_buffers) :
              k \in {j \in 1..Len(f.body) : f.body[j].kind = "tir.Block"}} \ Range(f.params)

Main == prog.relax[1]

----------------------------------------------------------------------------
(* C1: after walk() on an acyclic program, no Memory Block is reachable from *)
(* itself by one or more depends_on steps.  Every program of the family is   *)
(* acyclic: a binding only names variables bound before it.                  *)
C1_DependsOnAcyclic ==
    Walked => \A a \in DOMAIN mbs : a \notin TransitiveDeps(mbs, a)

(* C2: K, with its one internal buffer K_T, dispatched twice on different    *)
(* argument blocks gets two distinct internal blocks, one per call context,  *)
(* and the internal block of one call has no edge to or from an argument or  *)
(* output block that belongs to the other call only.                         *)
OwnBlocks(c) == Range(c.input_memblocks) \cup {c.output_memblock}

C2_CallContextIsolation ==
    (/\ Walked
     /\ Len(Contexts("K")) = 2
     /\ Contexts("K")[1].input_memblocks # Contexts("K")[2].input_memblocks)
    => LET c == Contexts("K")
           t == [k \in 1..2 |-> DictGet(tir_buffer_to_memblock, <<"K_T", k - 1>>)]
           foreign(k) == OwnBlocks(c[3 - k]) \ OwnBlocks(c[k])
       IN  /\ t[1] # t[2]
           /\ \A k \in 1..2 : \A b \in foreign(k) :
                 /\ <<t[k], b>> \notin DependsOnEdges(mbs)
                 /\ <<b, t[k]>> \notin DependsOnEdges(mbs)

(* C3: for a PrimFunc with c >= 1 call contexts, every buffer declared in    *)
(* its body that is no parameter has exactly one Memory Block, of origin     *)
(* tir.alloc.<name>, listed once under the PrimFunc, and the lookup entry    *)
(* (buffer, context index) of each of the c contexts maps to that block.     *)
C3_OneBlockPerInternalBuffer ==
    Walked =>
      \A k \in 1..Len(prog.tir) :
        LET f == prog.tir[k]
            c == Len(Contexts(f.name))
        IN  c >= 1 =>
              \A buf \in InternalBuffers(f) :
                LET made == {b \in DOMAIN mbs :
                                /\ mbs[b].origin = <<"tir.alloc", f.name>>
                                /\ mbs[b].name = Buffer(buf).name}
                IN  /\ Cardinality(made) = 1
                    /\ \A b \in made : Count(DictGet(memblocks, f.name), b) = 1
                    /\ \A idx \in 0..(c - 1) :
                          /\ DictHas(tir_buffer_to_memblock, <<buf, idx>>)
                          /\ DictGet(tir_buffer_to_memblock, <<buf, idx>>) \in made

C3_Witness ==
    /\ Walked
    /\ Len(Contexts("K")) >= 2
    /\ DictGet(tir_buffer_to_memblock, <<"K_T", 0>>)
         = DictGet(tir_buffer_to_memblock, <<"K_T", 1>>)

(* C4: one binding calling K on two input blocks gives exactly 4 Memory      *)
(* Blocks, 2 inputs, 1 output and 1 internal, and exactly the edges          *)
(* internal -> input 1, internal -> input 2 and output -> internal, in both  *)
(* views.                                                                    *)
ScenarioB ==
    /\ prog.tir = <<PrimFuncK>>
    /\ Len(Main.params) = 2
    /\ Len(Main.bindings) = 1
    /\ Main.bindings[1].args[1] # Main.bindings[1].args[2]

C4_ScenarioB ==
    (Walked /\ ScenarioB) =>
      LET in1 == DictGet(relax_var_to_memblock, "x1")
          in2 == DictGet(relax_var_to_memblock, "x2")
          outb == DictGet(relax_var_to_memblock, "lv1")
          internal == DictGet(tir_buffer_to_memblock, <<"K_T", 0>>)
      IN  /\ Len(mbs) = 4
          /\ Cardinality({in1, in2, outb, internal}) = 4
          /\ mbs[in1].origin = <<"relax.input", "main">>
          /\ mbs[in2].origin = <<"relax.input", "main">>
          /\ mbs[outb].origin = <<"relax.call_tir", "K">>
          /\ mbs[internal].origin = <<"tir.alloc", "K">>
          /\ DependsOnEdges(mbs) = {<<internal, in1>>, <<internal, in2>>, <<outb, internal>>}
          /\ LinksToEdges(mbs) = DependsOnEdges(mbs)
          /\ \A b \in DOMAIN mbs :
                Len(mbs[b].depends_on) + Len(mbs[b].links_to)
                  = Cardinality({e \in DependsOnEdges(mbs) : e[1] = b \/ e[2] = b})

C4_Witness == Walked /\ ScenarioB /\ Len(mbs) = 4

(* C5: for every finished graph the generated model holds, for each edge     *)
(* (block i depends on block j), exactly one line of each of the two         *)
(* precedence constraints and exactly one index_dep_info pair (j,i), and     *)
(* none for a pair that is no edge.                                          *)
C5_OnePairPerEdge ==
    pc.phase = "generated" =>
      LET flat == flatten(memblocks)
      IN  \A i \in 1..Len(flat), j \in 1..Len(flat) :
            LET e == IF Holds(mbs[flat[i]].depends_on, flat[j]) THEN 1 ELSE 0
            IN  /\ Count(out.lifetime_constraints, <<"alive", j, i>>) = e
                /\ Count(out.lifetime_constraints, <<"before", j, i>>) = e
                /\ Cardinality({k \in 1..Len(out.index_dep_info) :
                                   /\ out.index_dep_info[k].j = j
                                   /\ out.index_dep_info[k].i = i}) = e

(* C6: every block equals itself, and two blocks of two distinct constructor *)
(* calls are never equal and never share an identity token.                  *)
C6_IdentityEquality ==
    \A a \in DOMAIN mbs, b \in DOMAIN mbs :
        /\ a = b => Eq(mbs, a, b)
        /\ a # b => ~Eq(mbs, a, b) /\ mbs[a].id # mbs[b].id

(* C7: b is in a.depends_on if and only if a is in b.links_to.               *)
C7_MirroredViews == DependsOnEdges(mbs) = LinksToEdges(mbs)

(* C8: for distinct blocks a and b, a.add_dependency(b) ends with b in       *)
(* a.depends_on and a in b.links_to (Python's `in`), and the same call made  *)
(* again leaves every list as it is.                                         *)
C8_AddDependencyIdempotent ==
    (last.op = "add" /\ last.self # last.other) =>
        /\ In(mbs, mbs[last.self].depends_on, last.other)
        /\ In(mbs, mbs[last.other].links_to, last.self)
        /\ add_dependency(mbs, last.self, last.other) = mbs

C8_Witness ==
    /\ last.op = "add"
    /\ last.self # last.other
    /\ Holds(mbs[last.self].depends_on, last.other)
    /\ Holds(mbs[last.other].links_to, last.self)
    /\ Len(mbs[last.self].depends_on) >= 2

(* C9: no block is a member of its own depends_on or links_to: a self-edge   *)
(* a.add_dependency(a) is rejected.                                          *)
C9_NoSelfEdge ==
    \A a \in DOMAIN mbs :
        ~Holds(mbs[a].depends_on, a) /\ ~Holds(mbs[a].links_to, a)

(* C10: two independent inputs of 100 and 200 bytes and no dispatch binding  *)
(* give two blocks, no edge, and a generated model with n = 2, no precedence *)
(* constraint, no leaf-pruning constraint and memsize half the sum of sizeY. *)
ScenarioA ==
    /\ prog.tir = <<>>
    /\ Len(Main.params) = 2
    /\ Len(Main.bindings) = 0

C10_ScenarioA ==
    (pc.phase = "generated" /\ ScenarioA) =>
        /\ Len(mbs) = 2
        /\ DependsOnEdges(mbs) = {}
        /\ LinksToEdges(mbs) = {}
        /\ out.status = "ok"
        /\ out.n = 2
        /\ out.lifetime_constraints = <<>>
        /\ out.leaf_constraints = <<>>
        /\ out.memsize = SumSeq(out.sizeY) \div 2

(* C11: for every non-empty block list and every transfer function, the      *)
(* emitted sizeY values are positive integers, the smallest is 1, and a      *)
(* block of at most the byte size of another, whatever their element types,  *)
(* has at most its sizeY.                                                    *)
C11_SizeYMonotonicInBytes ==
    pc.phase = "sized" =>
      LET flat == flatten(memblocks)
          bytes(k) == BigToInt(size_bytes(mbs[flat[k]]))
      IN  /\ Len(out.sizeY) = Len(flat)
          /\ \A k \in 1..Len(flat) : out.sizeY[k] \in Nat \ {0}
          /\ MinSeq(out.sizeY) = 1
          /\ \A a \in 1..Len(flat), b \in 1..Len(flat) :
                bytes(a) <= bytes(b) => out.sizeY[a] <= out.sizeY[b]

(* C12: three blocks of sizeY [3,3,3] under memsize 4: no assignment that    *)
(* satisfies the capacity and non-overlap constraints places all three at    *)
(* posX = 0, and in every satisfying assignment at least two of the blocks   *)
(* occupy time intervals that do not overlap.                                *)
Scenario333 == out.sizeY = <<3, 3, 3>> /\ out.memsize = 4

C12_StaggeredInTime ==
    (pc.phase = "solved" /\ Scenario333) =>
        /\ \E i \in 1..3 : solution.posX[i] # 0
        /\ \E i \in 1..3, j \in 1..3 :
              /\ i # j
              /\ solution.posX[i] + solution.sizeX[i] <= solution.posX[j]

C12_Witness ==
    /\ pc.phase = "solved"
    /\ Scenario333
    /\ satisfies(out, solution)

(* C13: when the body of a PrimFunc holds a tir.Allocate statement, walk()   *)
(* does not return a graph that lacks the block of that allocation: it ends  *)
(* in an error instead.  walk() has returned in the states after it.         *)
AllocateNodes(f) == {k \in 1..Len(f.body) : f.body[k].kind = "tir.Allocate"}

C13_UnsupportedAllocationFails ==
    Walked =>
      \A t \in 1..Len(prog.tir) :
        \A k \in AllocateNodes(prog.tir[t]) :
          \E b \in DOMAIN mbs :
            /\ mbs[b].origin = <<"tir.alloc", prog.tir[t].name>>
            /\ mbs[b].name = Buffer(prog.tir[t].body[k].buffer_var).name

(* C14 as stated: after walk(), for every dispatch binding, each input       *)
(* argument block whose parameter the PrimFunc reads is a direct member of   *)
(* the output block's depends_on, and the output block is in its links_to.   *)
InputParams(f) == SelectSeq(f.params, LAMBDA b : b # f.out)

ReadBuffers(f) ==
    UNION {Range(f.body[k].reads) :
              k \in {j \in 1..Len(f.body) : f.body[j].kind = "tir.Block"}}

Malformed(shape, dtype) ==
    \/ \E k \in 1..Len(shape) : shape[k] <= 0
    \/ itemsize(dtype) = 0

C15_CreateValidates ==
    last.op = "create" =>
        IF Malformed(last.shape, last.dtype)
        THEN last.self = 0
        ELSE /\ last.self = Len(mbs)
             /\ mbs[last.self].shape = last.shape
             /\ mbs[last.self].dtype = last.dtype

(* C17: size_bytes is the product of the dimensions times the byte width of  *)
(* the dtype, and multiplying one dimension by k multiplies size_bytes by k, *)
(* also when the product exceeds the range of int64.  Stated for blocks of   *)
(* positive dimensions and a known dtype.                                    *)
RECURSIVE ExactProd(_)
ExactProd(shape) ==
    IF shape = <<>> THEN BigOf(1) ELSE BigMul(BigOf(shape[1]), ExactProd(Tail(shape)))

\* shape b is shape a with the dimension at position p multiplied by k
Scaled(a, b, p, k) ==
    /\ Len(a) = Len(b)
    /\ p \in 1..Len(a)
    /\ \A q \in 1..Len(a) : q # p => b[q] = a[q]
    /\ b[p] % a[p] = 0
    /\ b[p] \div a[p] = k

C17_SizeBytesMultiplicative ==
    (last.op = "size_bytes" /\ ~Malformed(mbs[out.self].shape, mbs[out.self].dtype)) =>
        LET b == mbs[out.self]
        IN  /\ out.size_bytes = BigMul(ExactProd(b.shape), BigOf(itemsize(b.dtype)))
            /\ \A x \in DOMAIN mbs, p \in 1..Len(b.shape), k \in 1..8 :
                  (/\ mbs[x].dtype = b.dtype
                   /\ ~Malformed(mbs[x].shape, mbs[x].dtype)
                   /\ Scaled(mbs[x].shape, b.shape, p, k))
                  => out.size_bytes = BigMul(BigOf(k), size_bytes(mbs[x]))

(* C16: on every finite graph, cyclic or not, b.get_all_dependencies()       *)
(* returns exactly the blocks reachable from b by one or more depends_on     *)
(* steps: a block is in the returned set (Python's `in`) if and only if it   *)
(* is reachable.                                                             *)
C16_ExactTransitiveClosure ==
    last.op = "get_all_dependencies" =>
        \A x \in DOMAIN mbs :
            mbs[x].id \in out.deps <=> x \in TransitiveDeps(mbs, out.self)

CallTirBindings(name) ==
    {<<r, j>> \in (1..Len(prog.relax)) \X (1..MaxCalls) :
        /\ j <= Len(prog.relax[r].bindings)
        /\ prog.relax[r].bindings[j].op = "relax.call_tir"
        /\ prog.relax[r].bindings[j].tir = name}

C19_RelaxPassComesFirst ==
    pc.phase \in {"tir", "walked", "generated"} =>
        /\ \A r \in 1..Len(prog.relax) :
              /\ \A k \in 1..Len(prog.relax[r].params) :
                    DictHas(relax_var_to_memblock, prog.relax[r].params[k].var)
              /\ \A j \in 1..Len(prog.relax[r].bindings) :
                    DictHas(relax_var_to_memblock, prog.relax[r].bindings[j].var)
        /\ \A t \in 1..Len(prog.tir) :
              Len(Contexts(prog.tir[t].name)) = Cardinality(CallTirBindings(prog.tir[t].name))
        /\ \A e \in 1..Len(call_tir_contexts) :
              Len(call_tir_contexts[e].val) = Cardinality(CallTirBindings(call_tir_contexts[e].key))

C19_Witness ==
    /\ pc.phase = "tir"
    /\ Len(prog.relax) = 2
    /\ Len(Contexts("R")) = 3

(* C20: after walk(), in every call context every formal parameter of the    *)
(* PrimFunc is bound in the lookup table: to the context's output block when *)
(* its index was inferred as an output, otherwise to the argument block the  *)
(* call passes for it, the k-th argument for the k-th input parameter,       *)
(* wherever the output stands among the formal parameters.                   *)
InputRank(c, i) == Cardinality({j \in 0..i : j \notin c.output_param_indices})

C20_ParametersBoundToTheirArguments ==
    Walked =>
      \A t \in 1..Len(prog.tir) :
        LET f == prog.tir[t]
        IN  \A idx \in 1..Len(Contexts(f.name)) :
              LET c == Contexts(f.name)[idx]
              IN  \A i \in 0..(Len(f.params) - 1) :
                    /\ DictHas(tir_buffer_to_memblock, <<f.params[i + 1], idx - 1>>)
                    /\ DictGet(tir_buffer_to_memblock, <<f.params[i + 1], idx - 1>>) =
                          IF i \in c.output_param_indices
                          THEN c.output_memblock
                          ELSE c.input_memblocks[InputRank(c, i)]

(* C21: a generated model holds the leaf-pruning line posX[i] >= posX[j] - 1 *)
(* exactly for the blocks i with empty depends_on whose links_to is the      *)
(* single block j; a dependency-free block with no consumer or with two or   *)
(* more consumers contributes no line and the call still returns a model.    *)
LeafLinesExpected(h, flat) ==
    {<<"leaf", mb_index(h, flat, h[flat[k]].id), mb_index(h, flat, h[h[flat[k]].links_to[1]].id)>> :
        k \in {k2 \in 1..Len(flat) :
                  h[flat[k2]].depends_on = <<>> /\ Len(h[flat[k2]].links_to) = 1}}

C21_LeafPruningLines ==
    (pc.phase = "generated" /\ DependsOnEdges(mbs) # {}) =>
        /\ out.status = "ok"
        /\ Range(out.leaf_constraints) = LeafLinesExpected(mbs, flatten(memblocks))
        /\ Len(out.leaf_constraints) = Cardinality(LeafLinesExpected(mbs, flatten(memblocks)))

(* C22: in every generated model memsize = floor(sum of sizeY / 2) is at     *)
(* least 1, no block has a sizeY above memsize, and every consumer block     *)
(* together with the blocks of its depends_on has a total sizeY of at most   *)
(* memsize, so the capacity never makes the model unsatisfiable.             *)
FootprintAt(h, flat, sizeY, k) ==
    LET deps == {mb_index(h, flat, h[d].id) : d \in Range(h[flat[k]].depends_on)}
        group == deps \cup {mb_index(h, flat, h[flat[k]].id)}
        RECURSIVE total(_)
        total(S) == IF S = {} THEN 0
                    ELSE LET x == CHOOSE y \in S : TRUE IN sizeY[x] + total(S \ {x})
    IN  total(group)

C22_CapacityNeverTooSmall ==
    (pc.phase = "generated" /\ out.status = "ok") =>
        /\ out.memsize = SumSeq(out.sizeY) \div 2
        /\ out.memsize >= 1
        /\ \A i \in 1..out.n : out.sizeY[i] <= out.memsize
        /\ \A k \in 1..out.n :
              mbs[flatten(memblocks)[k]].depends_on # <<>> =>
                  FootprintAt(mbs, flatten(memblocks), out.sizeY, k) <= out.memsize

====
